---- MODULE Spec2Model ----
(***************************************************************************)
(* PrivateLottery (contracts/PrivateLottery.sol): the lottery round        *)
(* lifecycle, the 80/20 payout and the administrative controls.            *)
(*                                                                         *)
(* Amounts are wei.  One step of the model is one transaction: a call of   *)
(* an external function that either commits or reverts, in which case the  *)
(* contract is left as it was (EVM semantics).  Every handler is a function *)
(* from the contract's storage and balance (a record with the contract's    *)
(* field names) to an outcome: the contract after the call and "ok" or the  *)
(* revert message.                                                          *)
(*                                                                         *)
(* drawWinner and emergencyWithdraw pay with `call{value: ..}("")`, which   *)
(* runs the payee's code in the middle of the handler.  An externally owned *)
(* payee just accepts; a contract payee may fail, or call the lottery back  *)
(* before it accepts.  What each payee of a transaction does is an input of *)
(* the transaction (a payee plan).                                          *)
(***************************************************************************)
EXTENDS Integers, Sequences, FiniteSets, TLC

\* ------------------------------------------------------------------ bounds
MaxEntries == 2     \* entries in the ledger of one round
MaxCount   == 2     \* lifetime entry count of one participant
MaxPool    == 2     \* largest prizePool explored
MaxValue   == 2     \* largest msg.value explored
MaxFee     == 1     \* largest fee passed to setEntryFee
MaxRound   == 3     \* largest roundNumber explored
MaxSplitPool == 200 \* largest pool the split arithmetic is evaluated on
MaxPlain   == 1     \* largest plaintext behind an encrypted value
MaxStored  == 3     \* encrypted values held by the teaching contracts

\* --------------------------------------------------------------- addresses
Deployer == "deployer"
Addr     == {Deployer, "alice"}

\* entryFee = 0.001 ether at construction; the model counts it as 1 wei so
\* that payments below, at and above the fee fit the explored amounts.
InitialEntryFee == 1

VARIABLES
    owner,               \* address public owner
    entryFee,            \* uint256 public entryFee
    prizePool,           \* uint256 public prizePool
    isActive,            \* bool public isActive
    roundNumber,         \* uint256 public roundNumber
    entries,             \* LotteryEntry[] public entries
    winners,             \* Winner[] public winners
    participantEntries,  \* mapping(address => uint256)
    hasWon,              \* mapping(address => bool)
    balance,             \* address(this).balance
    \* EncryptedStorage (contracts/basic/EncryptedStorage.sol)
    userEncryptedValue32,  \* mapping(address => euint32)
    userEncryptedValue64,  \* mapping(address => euint64)
    \* UserDecryption
    userEncryptedData32,   \* mapping(address => euint32)
    userEncryptedData64,   \* mapping(address => euint64)
    userData,              \* mapping(address => UserData)
    \* AccessControlDemo
    sharedEncryptedValue,  \* euint32
    authorizedUsers,       \* mapping(address => bool)
    allowed,               \* the library's ACL: the <<handle, account>> rights
    \* AnonymousLottery
    anon                   \* its storage and balance, as one record

\* The PrivateLottery contract.
lotteryVars == <<owner, entryFee, prizePool, isActive, roundNumber, entries,
                 winners, participantEntries, hasWon, balance>>

\* The two teaching contracts with per-user encrypted values.
teachingVars == <<userEncryptedValue32, userEncryptedValue64,
                  userEncryptedData32, userEncryptedData64, userData>>

\* AccessControlDemo and the rights on its shared value.
accessVars == <<sharedEncryptedValue, authorizedUsers, allowed>>

vars == <<owner, entryFee, prizePool, isActive, roundNumber, entries,
          winners, participantEntries, hasWon, balance,
          userEncryptedValue32, userEncryptedValue64,
          userEncryptedData32, userEncryptedData64, userData,
          sharedEncryptedValue, authorizedUsers, allowed, anon>>

\* The contract as a transaction finds it, as a record.  log and sent are the
\* events emitted and the value transfers made by the transaction so far;
\* like storage they are undone by a revert.
Snapshot ==
    [owner |-> owner, entryFee |-> entryFee, prizePool |-> prizePool,
     isActive |-> isActive, roundNumber |-> roundNumber, entries |-> entries,
     winners |-> winners, participantEntries |-> participantEntries,
     hasWon |-> hasWon, balance |-> balance, log |-> <<>>, sent |-> <<>>]

\* ------------------------------------------------------------------- events
\* An emitted event: its name and the arguments the model keeps (timestamps
\* and the placeholder winningNumber are left out).
Event(ev, who, amount, round, flag) ==
    [ev |-> ev, who |-> who, amount |-> amount, round |-> round, flag |-> flag]

LotteryEntered(participant, round) ==
    Event("LotteryEntered", participant, 0, round, FALSE)

WinnerDrawn(winner, prize, round) ==
    Event("WinnerDrawn", winner, prize, round, FALSE)

LotteryReset(newRound) == Event("LotteryReset", "", 0, newRound, FALSE)

\* A status event that does not carry the new value.
LotteryStatusChangedNoValue(active) ==
    Event("LotteryStatusChanged", "", 0, 0, FALSE)

LotteryStatusChanged(active) ==
    Event("LotteryStatusChanged", "", 0, 0, active)

\* A value transfer made by the contract.
Sent(to, amount) == [to |-> to, amount |-> amount]

\* ----------------------------------------------------------------- outcomes
\* st: the contract after the call; res: "ok" or the revert message;
\* winner, paidWinner, paidOwner: the payouts of a successful draw.
Done(s) ==
    [st |-> s, res |-> "ok", winner |-> "", paidWinner |-> 0, paidOwner |-> 0]

\* A failed require: every storage write and transfer of the call is undone,
\* `entry` being the contract as the call found it.
Reverted(entry, msg) ==
    [st |-> entry, res |-> msg, winner |-> "", paidWinner |-> 0, paidOwner |-> 0]

\* require(success, ..) after a payout; `now` is the contract at that point.
PayoutFailedKeepsState(entry, now, msg) ==
    [st |-> now, res |-> msg, winner |-> "", paidWinner |-> 0, paidOwner |-> 0]

PayoutFailed(entry, now, msg) == Reverted(entry, msg)

\* ---------------------------------------------------------------- modifiers
onlyOwnerAnyone(s, c) == TRUE

onlyOwner(s, c) == c = s.owner

onlyActiveAlways(s) == TRUE

onlyActive(s) == s.isActive

\* ------------------------------------------------------------- enterLottery
FeePaidAlways(s, v) == TRUE

FeePaid(s, v) == v >= s.entryFee

PoolAfterEntryFeeOnly(s, v) == s.prizePool + s.entryFee

PoolAfterEntry(s, v) == s.prizePool + v

enterLottery(s, c, v) ==
    IF ~onlyActive(s) THEN Reverted(s, "Lottery is not active")
    ELSE IF ~FeePaid(s, v) THEN Reverted(s, "Insufficient entry fee")
    ELSE Done([s EXCEPT
            !.entries = Append(@, [participant |-> c]),
            !.participantEntries[c] = @ + 1,
            !.prizePool = PoolAfterEntry(s, v),
            !.balance = @ + v,
            !.log = Append(@, LotteryEntered(c, s.roundNumber))])

\* --------------------------------------------------------- receive, fallback
\* A receive() that turns donations down while the lottery is inactive.
receiveOnlyActive(s, v) ==
    IF ~onlyActive(s) THEN Reverted(s, "Lottery is not active")
    ELSE Done([s EXCEPT !.prizePool = @ + v, !.balance = @ + v])

receive(s, v) ==
    Done([s EXCEPT !.prizePool = @ + v, !.balance = @ + v])

fallback(s, v) ==
    Done([s EXCEPT !.prizePool = @ + v, !.balance = @ + v])

\* ------------------------------------------------------------ owner setters
\* A setter that also empties the ledger when it switches the lottery off.
setLotteryActiveClearsEntries(s, c, active) ==
    IF ~onlyOwner(s, c) THEN Reverted(s, "Only owner can call this function")
    ELSE Done([s EXCEPT !.isActive = active,
                        !.entries = IF active THEN @ ELSE <<>>,
                        !.log = Append(@, LotteryStatusChanged(active))])

setLotteryActive(s, c, active) ==
    IF ~onlyOwner(s, c) THEN Reverted(s, "Only owner can call this function")
    ELSE Done([s EXCEPT !.isActive = active,
                        !.log = Append(@, LotteryStatusChanged(active))])

\* A setter whose fee applies from the next round on: it is ignored while
\* the ledger holds entries.
setEntryFeeNextRound(s, c, newFee) ==
    IF ~onlyOwner(s, c) THEN Reverted(s, "Only owner can call this function")
    ELSE IF Len(s.entries) > 0 THEN Done(s)
    ELSE Done([s EXCEPT !.entryFee = newFee])

setEntryFee(s, c, newFee) ==
    IF ~onlyOwner(s, c) THEN Reverted(s, "Only owner can call this function")
    ELSE Done([s EXCEPT !.entryFee = newFee])

\* ------------------------------------------------------------- payee plans
\* A payee plan: the call the payee makes to the lottery while it is being
\* paid (cb: none or one) and whether its code then returns success.
\* A call: op, the value or fee v, the flag of setLotteryActive, the block
\* hash of a draw, and the plans of the payees of the call.
\* Explored: at most one callback per transaction; the payees of a payout
\* made inside a callback accept or fail without calling back.
Accepts == [cb |-> <<>>, accept |-> TRUE]
Fails   == [cb |-> <<>>, accept |-> FALSE]

Call(op, v, flag, hash, plan) ==
    [op |-> op, v |-> v, flag |-> flag, hash |-> hash, plan |-> plan]

\* keccak256(..) of the block data, as far as `% entries.length` sees it.
Hashes == 0..(MaxEntries - 1)

PlainPlans == {Accepts, Fails}

Callbacks ==
    {Call("enterLottery", v, FALSE, 0, <<>>) : v \in 0..MaxValue}
    \cup {Call("receive", v, FALSE, 0, <<>>) : v \in 0..MaxValue}
    \cup {Call("fallback", v, FALSE, 0, <<>>) : v \in 0..MaxValue}
    \cup {Call("setLotteryActive", 0, f, 0, <<>>) : f \in BOOLEAN}
    \cup {Call("setEntryFee", v, FALSE, 0, <<>>) : v \in 0..MaxFee}
    \cup {Call("drawWinner", 0, FALSE, h, p) :
              h \in Hashes, p \in [w : PlainPlans, o : PlainPlans]}
    \cup {Call("emergencyWithdraw", 0, FALSE, 0, [o |-> pp]) : pp \in PlainPlans}

CallbackPlans == {[cb |-> <<k>>, accept |-> TRUE] : k \in Callbacks}

\* The plans of the two payees of a draw, the winner (w) and the owner (o),
\* and of the payee of a withdrawal.
AllDrawPlans ==
    [w : PlainPlans, o : PlainPlans]
    \cup [w : CallbackPlans, o : {Accepts}]
    \cup [w : {Accepts}, o : CallbackPlans]

AllWithdrawPlans == [o : PlainPlans \cup CallbackPlans]

\* ---------------------------------------------------------------- drawWinner
PrizeTwentyPercent(pool) == (pool * 20) \div 100

Prize(pool) == (pool * 80) \div 100

\* An owner fee computed as its own 20%, leaving the rounding remainder in
\* the contract.
OwnerFeeTwentyPercent(pool, prize) == (pool * 20) \div 100

OwnerFee(pool, prize) == pool - prize

\* resetLottery() with a pool that survives the reset.
resetLotteryKeepsPool(s) ==
    [s EXCEPT !.entries = <<>>, !.roundNumber = @ + 1,
              !.log = Append(@, LotteryReset(s.roundNumber + 1))]

\* resetLottery() that also zeroes the entry counts of the round's
\* participants.
resetLotteryClearsCounts(s) ==
    [s EXCEPT !.entries = <<>>, !.prizePool = 0, !.roundNumber = @ + 1,
              !.participantEntries =
                  [a \in DOMAIN @ |->
                      IF \E i \in DOMAIN s.entries : s.entries[i].participant = a
                      THEN 0 ELSE @[a]],
              !.log = Append(@, LotteryReset(s.roundNumber + 1))]

\* LotteryReset carries roundNumber after the increment.
resetLottery(s) ==
    [s EXCEPT !.entries = <<>>, !.prizePool = 0, !.roundNumber = @ + 1,
              !.log = Append(@, LotteryReset(s.roundNumber + 1))]

\* A draw that, finding no entries, skips the payout and starts a new round.
DrawNoEntriesResets(s) == Done(resetLottery(s))

DrawNoEntries(s) == Reverted(s, "No entries in lottery")

\* A draw that always picks the first entry of the ledger.
RandomIndexFirst(hash, n) == 0

\* uint256(keccak256(..)) % entries.length
RandomIndex(hash, n) == hash % n

\* A draw that keeps only the latest winner: the record takes the place of
\* the last one.
RecordWinnerReplacesLast(s, winner, prize) ==
    [s EXCEPT
       !.hasWon[winner] = TRUE,
       !.winners = IF @ = <<>> THEN <<[winner |-> winner, prize |-> prize,
                                      winningNumber |-> 0]>>
                   ELSE [@ EXCEPT ![Len(@)] = [winner |-> winner, prize |-> prize,
                                               winningNumber |-> 0]]]

\* A draw that records the winner without marking the address as a winner.
RecordWinnerNoFlag(s, winner, prize) ==
    [s EXCEPT
       !.winners = Append(@, [winner |-> winner, prize |-> prize,
                              winningNumber |-> 0])]

\* hasWon[winner] = true; winners.push(..) (winningNumber is the placeholder 0)
RecordWinner(s, winner, prize) ==
    [s EXCEPT
       !.hasWon[winner] = TRUE,
       !.winners = Append(@, [winner |-> winner, prize |-> prize,
                              winningNumber |-> 0])]

RECURSIVE drawWinner(_, _, _, _), emergencyWithdraw(_, _, _), Exec(_, _, _),
          Pay(_, _, _, _)

\* payable(to).call{value: amount}(""): fails outright when the contract
\* holds less than amount; otherwise the value moves and the payee's code
\* runs under plan pp.  A callback that reverts undoes only itself.
Pay(s, to, amount, pp) ==
    IF s.balance < amount THEN [success |-> FALSE, st |-> s]
    ELSE LET s1 == [s EXCEPT !.balance = @ - amount,
                             !.sent = Append(@, Sent(to, amount))]
             s2 == IF pp.cb = <<>> THEN s1 ELSE Exec(s1, to, pp.cb[1]).st
         IN  IF pp.accept THEN [success |-> TRUE, st |-> s2]
             ELSE [success |-> FALSE, st |-> s]

\* randomIndex is hash % entries.length (0-based; sequences here are 1-based).
drawWinner(s, c, hash, plan) ==
    IF ~onlyOwner(s, c) THEN Reverted(s, "Only owner can call this function")
    ELSE IF ~onlyActive(s) THEN Reverted(s, "Lottery is not active")
    ELSE IF ~(Len(s.entries) > 0) THEN DrawNoEntries(s)
    ELSE LET randomIndex == RandomIndex(hash, Len(s.entries))
             winner   == s.entries[randomIndex + 1].participant
             prize    == Prize(s.prizePool)
             ownerFee == OwnerFee(s.prizePool, prize)
             s1 == RecordWinner(s, winner, prize)
             payWinner == Pay(s1, winner, prize, plan.w)
         IN  IF ~payWinner.success
             THEN PayoutFailed(s, payWinner.st, "Prize transfer to winner failed")
             ELSE LET payOwner == Pay(payWinner.st, payWinner.st.owner,
                                      ownerFee, plan.o)
                  IN  IF ~payOwner.success
                      THEN PayoutFailed(s, payOwner.st,
                                        "Fee transfer to owner failed")
                      ELSE LET s2 == [payOwner.st EXCEPT !.log =
                                         Append(@, WinnerDrawn(winner, prize,
                                                payOwner.st.roundNumber))]
                           IN  [st |-> resetLottery(s2), res |-> "ok",
                                winner |-> winner, paidWinner |-> prize,
                                paidOwner |-> ownerFee]

\* A withdrawal of the pool only, leaving what the contract holds beyond it.
WithdrawAmountPoolOnly(s) == s.prizePool

\* address(this).balance
WithdrawAmount(s) == s.balance

emergencyWithdraw(s, c, plan) ==
    IF ~onlyOwner(s, c) THEN Reverted(s, "Only owner can call this function")
    ELSE LET pay == Pay(s, s.owner, WithdrawAmount(s), plan.o)
         IN  IF ~pay.success THEN Reverted(s, "Withdrawal failed")
             ELSE Done(pay.st)

\* Call k made by c.
Exec(s, c, k) ==
    CASE k.op = "enterLottery"      -> enterLottery(s, c, k.v)
      [] k.op = "receive"           -> receive(s, k.v)
      [] k.op = "fallback"          -> fallback(s, k.v)
      [] k.op = "setLotteryActive"  -> setLotteryActive(s, c, k.flag)
      [] k.op = "setEntryFee"       -> setEntryFee(s, c, k.v)
      [] k.op = "drawWinner"        -> drawWinner(s, c, k.hash, k.plan)
      [] k.op = "emergencyWithdraw" -> emergencyWithdraw(s, c, k.plan)

\* -------------------------------------------------------- encrypted values
\* An euint32/euint64 in storage is a handle: the zero handle of a slot never
\* written (NoValue), or the handle of a ciphertext, written here as the
\* 1-tuple of its plaintext.  The contracts never see the plaintext; they
\* only store handles, test them with FHE.isInitialized and combine them.
\* Inputs are taken to carry valid proofs.  The decryption rights granted by
\* FHE.allowThis/FHE.allow are kept by the library's ACL, not by these two
\* contracts, and none of their functions reads them.
NoValue == <<>>

Enc(v) == <<v>>

Plain == 0..MaxPlain

\* FHE.fromExternal(encryptedValue, inputProof)
fromExternal(v) == Enc(v)

\* FHE.isInitialized(value): the handle is not zero.
isInitialized(x) == x # NoValue

\* The plaintext behind a handle; the library reads a zero handle as 0.
PlainOf(x) == IF x = NoValue THEN 0 ELSE x[1]

\* FHE.add(a, b)
FHEadd(a, b) == Enc(PlainOf(a) + PlainOf(b))

\* UserData of a user who stored none.
NoUserData == [balance |-> NoValue, score |-> NoValue, timestamp |-> NoValue]

\* The two contracts as deployed.
TeachingInit ==
    /\ userEncryptedValue32 = [a \in Addr |-> NoValue]
    /\ userEncryptedValue64 = [a \in Addr |-> NoValue]
    /\ userEncryptedData32 = [a \in Addr |-> NoValue]
    /\ userEncryptedData64 = [a \in Addr |-> NoValue]
    /\ userData = [a \in Addr |-> NoUserData]

\* The accounts of AccessControlDemo: its owner (the deployer) and two users.
DemoAddr == Addr \cup {"bob"}

\* address(this) of AccessControlDemo.
This == "this"

\* AccessControlDemo as deployed: no shared value, nobody authorized, no
\* right granted.
AccessInit ==
    /\ sharedEncryptedValue = NoValue
    /\ authorizedUsers = [a \in DemoAddr |-> FALSE]
    /\ allowed = {}

\* -------------------------------------------------------- AnonymousLottery
\* uint256 public entryFee = 0.00001 ether, the unit of amounts wherever
\* AnonymousLottery is explored.
AnonInitialEntryFee == 1

\* AnonymousLottery as its constructor and field initialisers leave it.
Anon_constructor(deployer) ==
    [owner |-> deployer, entryFee |-> AnonInitialEntryFee, prizePool |-> 0,
     isActive |-> TRUE, roundNumber |-> 1, entries |-> <<>>,
     winners |-> <<>>, participantEntries |-> [a \in Addr |-> 0],
     hasWon |-> [a \in Addr |-> FALSE], balance |-> 0, log |-> <<>>]

AnonInit == anon = Anon_constructor(Deployer)

\* emit LotteryEntered(msg.sender, ticketCount, entries.length, roundNumber)
Anon_LotteryEntered(participant, ticketCount, totalEntries, round) ==
    [ev |-> "LotteryEntered", who |-> participant, ticketCount |-> ticketCount,
     totalEntries |-> totalEntries, round |-> round]

\* One entry for the whole payment.
Anon_TicketCountOne(value, fee) == 1

\* msg.value / entryFee, for a fee that is not 0
Anon_TicketCount(value, fee) == value \div fee

\* The ticketCount entries pushed by the loop of enterLottery.
Anon_Tickets(c, ticketCount) ==
    [i \in 1..ticketCount |-> [participant |-> c, ticketCount |-> ticketCount]]

\* The division by a zero entryFee panics and the pool is credited last.
Anon_enterLottery(s, c, v) ==
    IF ~s.isActive THEN Reverted(s, "Lottery is not active")
    ELSE IF ~(v >= s.entryFee) THEN Reverted(s, "Insufficient entry fee")
    ELSE IF s.entryFee = 0 THEN Reverted(s, "Panic(0x12)")
    ELSE LET ticketCount == Anon_TicketCount(v, s.entryFee)
         IN  IF ~(ticketCount > 0 /\ ticketCount <= 10)
             THEN Reverted(s, "Invalid ticket count")
             ELSE Done([s EXCEPT
                     !.entries = @ \o Anon_Tickets(c, ticketCount),
                     !.participantEntries[c] = @ + ticketCount,
                     !.prizePool = @ + v,
                     !.balance = @ + v,
                     !.log = Append(@, Anon_LotteryEntered(c, ticketCount,
                                 Len(s.entries) + ticketCount, s.roundNumber))])

\* delete entries; prizePool = 0; roundNumber++; emit LotteryReset
Anon_resetLottery(s) ==
    [s EXCEPT !.entries = <<>>, !.prizePool = 0, !.roundNumber = @ + 1,
              !.log = Append(@, LotteryReset(s.roundNumber + 1))]

\* A prize of the whole pool.
Anon_PrizeAll(pool) == pool

\* (prizePool * 80) / 100
Anon_Prize(pool) == (pool * 80) \div 100

\* payable(to).transfer(amount): forwards 2300 gas and reverts the
\* transaction unless the payment succeeds.  It fails when the contract
\* holds less than amount, when the payee refuses, and when the payee's code
\* needs more than the gas forwarded, as the payees that call back into the
\* lottery (the plans with a callback) do.
Anon_transfer(s, to, amount, pp) ==
    IF s.balance < amount \/ ~pp.accept \/ pp.cb # <<>>
    THEN [success |-> FALSE, st |-> s]
    ELSE [success |-> TRUE, st |-> [s EXCEPT !.balance = @ - amount]]

Anon_drawWinner(s, c, hash, plan) ==
    IF ~(c = s.owner) THEN Reverted(s, "Only owner can call this function")
    ELSE IF ~s.isActive THEN Reverted(s, "Lottery is not active")
    ELSE IF ~(Len(s.entries) > 0) THEN Reverted(s, "No entries in lottery")
    ELSE LET randomIndex == hash % Len(s.entries)
             winner   == s.entries[randomIndex + 1].participant
             prize    == Anon_Prize(s.prizePool)
             ownerFee == s.prizePool - prize
             s1 == [s EXCEPT !.hasWon[winner] = TRUE,
                             !.winners = Append(@, [winner |-> winner,
                                                    prize |-> prize])]
             payWinner == Anon_transfer(s1, winner, prize, plan.w)
         IN  IF ~payWinner.success THEN Reverted(s, "transfer failed")
             ELSE LET payOwner == Anon_transfer(payWinner.st, s.owner,
                                                ownerFee, plan.o)
                  IN  IF ~payOwner.success THEN Reverted(s, "transfer failed")
                      ELSE LET s2 == [payOwner.st EXCEPT !.log =
                                         Append(@, WinnerDrawn(winner, prize,
                                                               s.roundNumber))]
                           IN  [st |-> Anon_resetLottery(s2), res |-> "ok",
                                winner |-> winner, paidWinner |-> prize,
                                paidOwner |-> ownerFee]

Anon_setLotteryActive(s, c, active) ==
    IF ~(c = s.owner) THEN Reverted(s, "Only owner can call this function")
    ELSE Done([s EXCEPT !.isActive = active])

Anon_setEntryFee(s, c, newFee) ==
    IF ~(c = s.owner) THEN Reverted(s, "Only owner can call this function")
    ELSE Done([s EXCEPT !.entryFee = newFee])

Anon_emergencyWithdraw(s, c, plan) ==
    IF ~(c = s.owner) THEN Reverted(s, "Only owner can call this function")
    ELSE LET pay == Anon_transfer(s, s.owner, s.balance, plan.o)
         IN  IF ~pay.success THEN Reverted(s, "transfer failed")
             ELSE Done(pay.st)

Anon_receive(s, v) ==
    Done([s EXCEPT !.prizePool = @ + v, !.balance = @ + v])

Anon_fallback(s, v) ==
    Done([s EXCEPT !.prizePool = @ + v, !.balance = @ + v])

\* ------------------------------------------------------------- transactions
\* The states explored.
Within(s) ==
    /\ Len(s.entries) <= MaxEntries
    /\ \A a \in Addr : s.participantEntries[a] <= MaxCount
    /\ s.prizePool <= MaxPool
    /\ s.roundNumber <= MaxRound

\* The transaction commits r.st; after a revert that is the contract as it was.
Commit(r) ==
    /\ Within(r.st)
    /\ owner' = r.st.owner
    /\ entryFee' = r.st.entryFee
    /\ prizePool' = r.st.prizePool
    /\ isActive' = r.st.isActive
    /\ roundNumber' = r.st.roundNumber
    /\ entries' = r.st.entries
    /\ winners' = r.st.winners
    /\ participantEntries' = r.st.participantEntries
    /\ hasWon' = r.st.hasWon
    /\ balance' = r.st.balance
    /\ UNCHANGED teachingVars
    /\ UNCHANGED accessVars
    /\ UNCHANGED anon

EnterLottery(c, v) == Commit(enterLottery(Snapshot, c, v))

Receive(c, v) == Commit(receive(Snapshot, v))

Fallback(c, v) == Commit(fallback(Snapshot, v))

SetLotteryActive(c, active) ==
    Commit(setLotteryActive(Snapshot, c, active))

SetEntryFee(c, newFee) == Commit(setEntryFee(Snapshot, c, newFee))

DrawWinner(c, hash, plan) ==
    Commit(drawWinner(Snapshot, c, hash, plan))

EmergencyWithdraw(c, plan) ==
    Commit(emergencyWithdraw(Snapshot, c, plan))

\* The payee plans a transaction is tried with.  A call that the owner check
\* turns down pays nobody, so one plan stands for all of them.
TxDrawPlans(c) ==
    IF c = owner THEN AllDrawPlans ELSE {[w |-> Accepts, o |-> Accepts]}

TxWithdrawPlans(c) ==
    IF c = owner THEN AllWithdrawPlans ELSE {[o |-> Accepts]}

\* ----------------------------------------------------------- specification
Init ==
    /\ owner = Deployer
    /\ entryFee = InitialEntryFee
    /\ prizePool = 0
    /\ isActive = TRUE
    /\ roundNumber = 1
    /\ entries = <<>>
    /\ winners = <<>>
    /\ participantEntries = [a \in Addr |-> 0]
    /\ hasWon = [a \in Addr |-> FALSE]
    /\ balance = 0
    /\ TeachingInit
    /\ AccessInit
    /\ AnonInit

Next ==
    \/ \E c \in Addr, v \in 0..MaxValue : EnterLottery(c, v)
    \/ \E c \in Addr, v \in 0..MaxValue : Receive(c, v)
    \/ \E c \in Addr, v \in 0..MaxValue : Fallback(c, v)
    \/ \E c \in Addr, active \in BOOLEAN : SetLotteryActive(c, active)
    \/ \E c \in Addr, newFee \in 0..MaxFee : SetEntryFee(c, newFee)
    \/ \E c \in Addr, hash \in Hashes : \E plan \in TxDrawPlans(c) :
           DrawWinner(c, hash, plan)
    \/ \E c \in Addr : \E plan \in TxWithdrawPlans(c) : EmergencyWithdraw(c, plan)

Spec == Init /\ [][Next]_vars

\* ========================================================================
\* EncryptedStorage and UserDecryption: per-user encrypted values.
\* A call's outcome: the contract's storage after it and "ok" or the revert
\* message.
StorageSnapshot ==
    [userEncryptedValue32 |-> userEncryptedValue32,
     userEncryptedValue64 |-> userEncryptedValue64]

DecryptionSnapshot ==
    [userEncryptedData32 |-> userEncryptedData32,
     userEncryptedData64 |-> userEncryptedData64,
     userData |-> userData]

Ok(s) == [st |-> s, res |-> "ok"]

Rejected(s, msg) == [st |-> s, res |-> msg]

\* --- EncryptedStorage
EncryptedStorage_storeSingleValue32(s, c, v) ==
    Ok([s EXCEPT !.userEncryptedValue32[c] = fromExternal(v)])

EncryptedStorage_storeSingleValue64(s, c, v) ==
    Ok([s EXCEPT !.userEncryptedValue64[c] = fromExternal(v)])

EncryptedStorage_storeMultipleValues(s, c, v32, v64) ==
    Ok([s EXCEPT !.userEncryptedValue32[c] = fromExternal(v32),
                 !.userEncryptedValue64[c] = fromExternal(v64)])

EncryptedStorage_hasValue32(s, user) ==
    isInitialized(s.userEncryptedValue32[user])

\* An addToValue32 that looks for the value of any user.
HasStored32Anyone(s, c) ==
    \E a \in DOMAIN s.userEncryptedValue32 :
        isInitialized(s.userEncryptedValue32[a])

\* require(FHE.isInitialized(userEncryptedValue32[msg.sender]), ..)
HasStored32(s, c) == isInitialized(s.userEncryptedValue32[c])

EncryptedStorage_addToValue32(s, c, v) ==
    IF ~HasStored32(s, c) THEN Rejected(s, "No value stored")
    ELSE Ok([s EXCEPT !.userEncryptedValue32[c] = FHEadd(@, fromExternal(v))])

\* --- UserDecryption
UserDecryption_storeSingleValue(s, c, v) ==
    Ok([s EXCEPT !.userEncryptedData32[c] = fromExternal(v)])

UserDecryption_storeSingleValue64(s, c, v) ==
    Ok([s EXCEPT !.userEncryptedData64[c] = fromExternal(v)])

UserDecryption_storeMultipleValues(s, c, b, sc, ts) ==
    Ok([s EXCEPT !.userData[c] = [balance |-> fromExternal(b),
                                  score |-> fromExternal(sc),
                                  timestamp |-> fromExternal(ts)]])

UserDecryption_hasValue(s, c) == isInitialized(s.userEncryptedData32[c])

UserDecryption_addToValue(s, c, v) ==
    IF ~isInitialized(s.userEncryptedData32[c])
    THEN Rejected(s, "No value stored")
    ELSE Ok([s EXCEPT !.userEncryptedData32[c] = FHEadd(@, fromExternal(v))])

\* address(0)
ZeroAddress == "0x0"

\* Grants the recipient a decryption right; writes no storage.
UserDecryption_shareWithUser(s, c, recipient) ==
    IF ~isInitialized(s.userEncryptedData32[c])
    THEN Rejected(s, "No value stored")
    ELSE IF ~(recipient # ZeroAddress) THEN Rejected(s, "Invalid recipient")
    ELSE Ok(s)

\* --- transactions on the two contracts
\* The encrypted values a storage holds.
Stored32(f) == Cardinality({a \in DOMAIN f : isInitialized(f[a])})

StoredData(f) == Cardinality({a \in DOMAIN f : isInitialized(f[a].balance)})

\* The states explored: at most MaxStored values held by the two contracts
\* together, of plaintexts up to MaxPlain.
TeachingWithin(es, ud) ==
    /\ Stored32(es.userEncryptedValue32) + Stored32(es.userEncryptedValue64)
         + Stored32(ud.userEncryptedData32) + Stored32(ud.userEncryptedData64)
         + StoredData(ud.userData) <= MaxStored
    /\ \A a \in Addr :
          /\ es.userEncryptedValue32[a] \in {NoValue} \cup {Enc(v) : v \in Plain}
          /\ ud.userEncryptedData32[a] \in {NoValue} \cup {Enc(v) : v \in Plain}

StorageCommit(r) ==
    /\ TeachingWithin(r.st, DecryptionSnapshot)
    /\ userEncryptedValue32' = r.st.userEncryptedValue32
    /\ userEncryptedValue64' = r.st.userEncryptedValue64
    /\ UNCHANGED <<userEncryptedData32, userEncryptedData64, userData>>
    /\ UNCHANGED lotteryVars
    /\ UNCHANGED accessVars
    /\ UNCHANGED anon

DecryptionCommit(r) ==
    /\ TeachingWithin(StorageSnapshot, r.st)
    /\ userEncryptedData32' = r.st.userEncryptedData32
    /\ userEncryptedData64' = r.st.userEncryptedData64
    /\ userData' = r.st.userData
    /\ UNCHANGED <<userEncryptedValue32, userEncryptedValue64>>
    /\ UNCHANGED lotteryVars
    /\ UNCHANGED accessVars
    /\ UNCHANGED anon

StoreSingleValue32(c, v) ==
    StorageCommit(EncryptedStorage_storeSingleValue32(StorageSnapshot, c, v))

StoreSingleValue64(c, v) ==
    StorageCommit(EncryptedStorage_storeSingleValue64(StorageSnapshot, c, v))

StoreMultipleValues(c, v32, v64) ==
    StorageCommit(EncryptedStorage_storeMultipleValues(StorageSnapshot, c, v32, v64))

AddToValue32(c, v) ==
    StorageCommit(EncryptedStorage_addToValue32(StorageSnapshot, c, v))

DecryptionStoreSingleValue(c, v) ==
    DecryptionCommit(UserDecryption_storeSingleValue(DecryptionSnapshot, c, v))

DecryptionStoreSingleValue64(c, v) ==
    DecryptionCommit(UserDecryption_storeSingleValue64(DecryptionSnapshot, c, v))

DecryptionStoreMultipleValues(c, b, sc, ts) ==
    DecryptionCommit(UserDecryption_storeMultipleValues(DecryptionSnapshot, c, b, sc, ts))

DecryptionAddToValue(c, v) ==
    DecryptionCommit(UserDecryption_addToValue(DecryptionSnapshot, c, v))

ShareWithUser(c, recipient) ==
    DecryptionCommit(UserDecryption_shareWithUser(DecryptionSnapshot, c, recipient))

TeachingNext ==
    \/ \E c \in Addr, v \in Plain : StoreSingleValue32(c, v)
    \/ \E c \in Addr, v \in Plain : StoreSingleValue64(c, v)
    \/ \E c \in Addr, v32 \in Plain, v64 \in Plain : StoreMultipleValues(c, v32, v64)
    \/ \E c \in Addr, v \in Plain : AddToValue32(c, v)
    \/ \E c \in Addr, v \in Plain : DecryptionStoreSingleValue(c, v)
    \/ \E c \in Addr, v \in Plain : DecryptionStoreSingleValue64(c, v)
    \/ \E c \in Addr, b \in Plain, sc \in Plain, ts \in Plain :
           DecryptionStoreMultipleValues(c, b, sc, ts)
    \/ \E c \in Addr, v \in Plain : DecryptionAddToValue(c, v)
    \/ \E c \in Addr, recipient \in Addr \cup {ZeroAddress} :
           ShareWithUser(c, recipient)

SpecTeaching == Init /\ [][TeachingNext]_vars

\* ========================================================================
\* AccessControlDemo: the shared value, its logical authorization and the
\* decryption rights on it.  (setBalance, transfer and computeWithTransient
\* work on encryptedBalances and on the rights of balance handles only.)
AccessSnapshot ==
    [sharedEncryptedValue |-> sharedEncryptedValue,
     authorizedUsers |-> authorizedUsers, allowed |-> allowed]

\* address public immutable owner = msg.sender of the constructor
AccessOwner == Deployer

AccessOk(s) == [st |-> s, res |-> "ok", value |-> NoValue]

AccessRejected(s, msg) == [st |-> s, res |-> msg, value |-> NoValue]

\* FHE.fromExternal + FHE.allowThis(value): the contract, for which the
\* input was encrypted, takes a lasting right on it.
allowThis(s, value) == [s EXCEPT !.allowed = @ \cup {<<value, This>>}]

\* Whether the contract may grant a right on value: the library's ACL lets
\* an account grant a right only on a handle it is itself allowed on.
MayGrant(s, value) == <<value, This>> \in s.allowed

\* FHE.allow(value, account) by a contract that may grant it.
allow(s, value, account) == [s EXCEPT !.allowed = @ \cup {<<value, account>>}]

setSharedValue(s, c, v) ==
    IF ~(c = AccessOwner) THEN AccessRejected(s, "Not owner")
    ELSE LET value == fromExternal(v)
             s1 == allow(allowThis(s, value), value, AccessOwner)
         IN  AccessOk([s1 EXCEPT !.sharedEncryptedValue = value])

\* An authorizeUser without the check of the flag.
authorizeUserAgain(s, c, user) ==
    IF ~(c = AccessOwner) THEN AccessRejected(s, "Not owner")
    ELSE IF ~MayGrant(s, s.sharedEncryptedValue)
    THEN AccessRejected(s, "SenderNotAllowed")
    ELSE AccessOk([allow(s, s.sharedEncryptedValue, user)
                       EXCEPT !.authorizedUsers[user] = TRUE])

authorizeUser(s, c, user) ==
    IF ~(c = AccessOwner) THEN AccessRejected(s, "Not owner")
    ELSE IF ~(~s.authorizedUsers[user]) THEN AccessRejected(s, "Already authorized")
    ELSE IF ~MayGrant(s, s.sharedEncryptedValue)
    THEN AccessRejected(s, "SenderNotAllowed")
    ELSE AccessOk([allow(s, s.sharedEncryptedValue, user)
                       EXCEPT !.authorizedUsers[user] = TRUE])

revokeUser(s, c, user) ==
    IF ~(c = AccessOwner) THEN AccessRejected(s, "Not owner")
    ELSE IF ~s.authorizedUsers[user] THEN AccessRejected(s, "Not authorized")
    ELSE AccessOk([s EXCEPT !.authorizedUsers[user] = FALSE])

getSharedValue(s, c) ==
    IF ~(s.authorizedUsers[c] \/ c = AccessOwner)
    THEN AccessRejected(s, "Not authorized")
    ELSE [st |-> s, res |-> "ok", value |-> s.sharedEncryptedValue]

isAuthorized(s, user) == s.authorizedUsers[user]

AccessCommit(r) ==
    /\ sharedEncryptedValue' = r.st.sharedEncryptedValue
    /\ authorizedUsers' = r.st.authorizedUsers
    /\ allowed' = r.st.allowed
    /\ UNCHANGED lotteryVars
    /\ UNCHANGED teachingVars
    /\ UNCHANGED anon

SetSharedValue(c, v) == AccessCommit(setSharedValue(AccessSnapshot, c, v))

AuthorizeUser(c, user) == AccessCommit(authorizeUser(AccessSnapshot, c, user))

RevokeUser(c, user) == AccessCommit(revokeUser(AccessSnapshot, c, user))

GetSharedValue(c) == AccessCommit(getSharedValue(AccessSnapshot, c))

AccessNext ==
    \/ \E c \in DemoAddr, v \in Plain : SetSharedValue(c, v)
    \/ \E c \in DemoAddr, user \in DemoAddr : AuthorizeUser(c, user)
    \/ \E c \in DemoAddr, user \in DemoAddr : RevokeUser(c, user)
    \/ \E c \in DemoAddr : GetSharedValue(c)

SpecAccess == Init /\ [][AccessNext]_vars

\* ------------------------------------------------------------------ claims
\* The handlers are applied to every reachable state of the contract with
\* every caller, payment, block hash and payee plan explored.
NotOwner == "Only owner can call this function"
NotActive == "Lottery is not active"
TransferFailures ==
    {"Prize transfer to winner failed", "Fee transfer to owner failed"}

\* A draw that passes its three checks.
DrawChecksPass(c) == c = owner /\ isActive /\ Len(entries) > 0

\* C1: if, during drawWinner, the transfer to the winner or the transfer to
\* the owner fails (the payee fails, or the contract holds too little), the
\* draw is rejected and balance, entries, prizePool, roundNumber, winners and
\* hasWon (the whole contract) are as they were before the call.
C1_FailedPayoutRejectsDraw ==
    \A c \in Addr, h \in Hashes, plan \in AllDrawPlans :
        LET r == drawWinner(Snapshot, c, h, plan)
        IN  /\ (DrawChecksPass(c) /\ (~plan.w.accept \/ ~plan.o.accept))
                   => r.res \in TransferFailures
            /\ (DrawChecksPass(c) /\ balance < prizePool
                    /\ plan.w.cb = <<>> /\ plan.o.cb = <<>>)
                   => r.res \in TransferFailures
            /\ r.res \in TransferFailures
                   => /\ r.st = Snapshot
                      /\ r.st.balance = balance
                      /\ r.st.winners = winners
                      /\ r.st.hasWon = hasWon

\* C1 witness: a funded round in which the winner takes the prize and the
\* owner's transfer then fails.
C1_Witness ==
    /\ prizePool = 2 /\ balance = 2 /\ Len(entries) > 0
    /\ drawWinner(Snapshot, owner, 0, [w |-> Accepts, o |-> Fails]).res
           = "Fee transfer to owner failed"

\* C2: every successful draw that finds prizePool = P sends the winner
\* floor(P*80/100) and the owner P minus that; the two payouts sum to P, and
\* when no payee calls back the contract's balance falls by exactly P.
C2_ExactSplit ==
    \A h \in Hashes, plan \in AllDrawPlans :
        LET r == drawWinner(Snapshot, owner, h, plan)
        IN  r.res = "ok" =>
              /\ r.paidWinner = (prizePool * 80) \div 100
              /\ r.paidOwner = prizePool - r.paidWinner
              /\ r.paidWinner + r.paidOwner = prizePool
              /\ r.st.winners[Len(r.st.winners)].prize = (prizePool * 80) \div 100
              /\ (plan.w.cb = <<>> /\ plan.o.cb = <<>>)
                     => r.st.balance = balance - prizePool

\* C2 witness: a draw succeeds on a pool whose 80% is not a whole number.
C2_Witness ==
    /\ prizePool = 2
    /\ (prizePool * 80) % 100 # 0
    /\ drawWinner(Snapshot, owner, 0, [w |-> Accepts, o |-> Accepts]).res = "ok"

\* C3: immediately after any successful draw the entry count is 0, prizePool
\* is 0 and roundNumber is exactly one more than before the draw.
C3_ResetAfterDraw ==
    \A h \in Hashes, plan \in AllDrawPlans :
        LET r == drawWinner(Snapshot, owner, h, plan)
        IN  r.res = "ok" =>
              /\ Len(r.st.entries) = 0
              /\ r.st.prizePool = 0
              /\ r.st.roundNumber = roundNumber + 1

\* C4: drawWinner, setLotteryActive, setEntryFee and emergencyWithdraw called
\* by anyone but the owner fixed at deployment are rejected and change
\* nothing.
C4_OnlyOwner ==
    /\ owner = Deployer
    /\ \A c \in Addr \ {owner} :
        /\ \A h \in Hashes, plan \in AllDrawPlans :
               drawWinner(Snapshot, c, h, plan) = Reverted(Snapshot, NotOwner)
        /\ \A active \in BOOLEAN :
               setLotteryActive(Snapshot, c, active) = Reverted(Snapshot, NotOwner)
        /\ \A newFee \in 0..MaxFee :
               setEntryFee(Snapshot, c, newFee) = Reverted(Snapshot, NotOwner)
        /\ \A plan \in AllWithdrawPlans :
               emergencyWithdraw(Snapshot, c, plan) = Reverted(Snapshot, NotOwner)

\* C4 witness: a funded, active round with entries, where the same calls by
\* the owner would go through.
C4_Witness ==
    /\ isActive /\ Len(entries) > 0 /\ balance > 0 /\ balance >= prizePool
    /\ drawWinner(Snapshot, "alice", 0, [w |-> Accepts, o |-> Accepts]).res
           = NotOwner
    /\ drawWinner(Snapshot, owner, 0, [w |-> Accepts, o |-> Accepts]).res = "ok"

\* C5: a successful enterLottery with payment v appends exactly one entry of
\* the caller, adds 1 to the caller's entry count and v (the whole payment)
\* to prizePool, keeps the payment in the contract, and changes nothing else.
C5_EntryEffects ==
    \A c \in Addr, v \in 0..MaxValue :
        LET r == enterLottery(Snapshot, c, v)
        IN  r.res = "ok" =>
              r.st = [Snapshot EXCEPT
                        !.entries = entries \o <<[participant |-> c]>>,
                        !.participantEntries =
                            [a \in Addr |-> IF a = c
                                            THEN participantEntries[a] + 1
                                            ELSE participantEntries[a]],
                        !.prizePool = prizePool + v,
                        !.balance = balance + v,
                        !.log = <<LotteryEntered(c, roundNumber)>>]

\* C5 witness: the ledger holds an entry that was paid above the fee.
C5_Witness ==
    /\ entryFee = 1 /\ Len(entries) = 1 /\ prizePool = 2 /\ balance = 2
    /\ participantEntries["alice"] = 1
    /\ entries[1].participant = "alice"

\* C6: enterLottery with a payment below entryFee is rejected and leaves
\* prizePool, the ledger and the caller's entry count (the whole contract)
\* unchanged.
C6_InsufficientFeeRejected ==
    \A c \in Addr, v \in 0..MaxValue :
        v < entryFee =>
            LET r == enterLottery(Snapshot, c, v)
            IN  /\ r.res # "ok"
                /\ r.st = Snapshot
                /\ isActive => r.res = "Insufficient entry fee"

\* C6 witness: an active lottery with a positive fee turns an underpaid
\* entry down although earlier entries were accepted.
C6_Witness ==
    /\ isActive /\ entryFee > 0 /\ Len(entries) > 0
    /\ enterLottery(Snapshot, "alice", entryFee - 1).res = "Insufficient entry fee"

\* C7: while the lottery is inactive every enterLottery is rejected, also with
\* sufficient payment, and changes nothing; once the owner has set it active
\* again, entries with sufficient payment are accepted.
C7_InactiveRejectsEntries ==
    /\ ~isActive =>
          \A c \in Addr, v \in 0..MaxValue :
              enterLottery(Snapshot, c, v) = Reverted(Snapshot, NotActive)
    /\ LET on == setLotteryActive(Snapshot, owner, TRUE)
       IN  /\ on.res = "ok"
           /\ \A c \in Addr, v \in 0..MaxValue :
                  v >= entryFee => enterLottery(on.st, c, v).res = "ok"

\* C7 witness: a paused lottery with a pool and an entry, where a fully paid
\* entry is turned down and is accepted after reactivation.
C7_Witness ==
    /\ ~isActive /\ Len(entries) > 0 /\ prizePool > 0
    /\ enterLottery(Snapshot, "alice", entryFee).res = NotActive
    /\ enterLottery(setLotteryActive(Snapshot, owner, TRUE).st,
                    "alice", entryFee).res = "ok"

\* C8: drawWinner by the owner with no entries is rejected and leaves
\* roundNumber and prizePool (the whole contract) unchanged, also when
\* donations have made prizePool positive.
C8_EmptyDrawRejected ==
    Len(entries) = 0 =>
        \A h \in Hashes, plan \in AllDrawPlans :
            LET r == drawWinner(Snapshot, owner, h, plan)
            IN  /\ r.res # "ok"
                /\ r.st = Snapshot
                /\ r.st.roundNumber = roundNumber
                /\ r.st.prizePool = prizePool
                /\ isActive => r.res = "No entries in lottery"

\* C8 witness: an active round without entries whose pool holds a donation.
C8_Witness ==
    /\ isActive /\ Len(entries) = 0 /\ prizePool > 0 /\ balance = prizePool
    /\ drawWinner(Snapshot, owner, 0, [w |-> Accepts, o |-> Accepts]).res
           = "No entries in lottery"

\* setLotteryActive(b) by the owner changes isActive and nothing else.
SetActiveFrame ==
    \A active \in BOOLEAN :
        setLotteryActive(Snapshot, owner, active)
            = Done([Snapshot EXCEPT !.isActive = active,
                                    !.log = <<LotteryStatusChanged(active)>>])

\* C9 as stated: setLotteryActive by the owner changes only the flag, and a
\* draw by the owner with at least one entry, whose payees accept and which
\* the contract can pay, succeeds whether the lottery is active or not.
C9_DrawIgnoresActiveFlag ==
    /\ SetActiveFrame
    /\ (Len(entries) > 0 /\ balance >= prizePool) =>
           \A h \in Hashes :
               drawWinner(Snapshot, owner, h, [w |-> Accepts, o |-> Accepts]).res
                   = "ok"

\* C9 amended: setLotteryActive by the owner changes only the flag; the flag
\* gates draws as well as entries: a draw gets past its checks exactly when
\* the caller is the owner, the lottery is active and at least one entry
\* exists, so with an entry, accepting payees and enough balance the owner's
\* draw succeeds while active and is rejected, changing nothing, while
\* inactive.
C9_DrawNeedsActive ==
    /\ SetActiveFrame
    /\ \A c \in Addr, h \in Hashes :
           LET r == drawWinner(Snapshot, c, h, [w |-> Accepts, o |-> Accepts])
           IN  /\ (r.res \in {NotOwner, NotActive, "No entries in lottery"})
                      <=> ~DrawChecksPass(c)
               /\ (DrawChecksPass(c) /\ balance >= prizePool) => r.res = "ok"
               /\ (c = owner /\ ~isActive)
                      => r = Reverted(Snapshot, NotActive)

\* C9 witness: a paused lottery with an entry and a funded pool: the owner's
\* draw is turned down, and goes through once the flag is set again.
C9_Witness ==
    /\ ~isActive /\ Len(entries) > 0 /\ prizePool > 0 /\ balance >= prizePool
    /\ drawWinner(Snapshot, owner, 0, [w |-> Accepts, o |-> Accepts]).res
           = NotActive
    /\ drawWinner(setLotteryActive(Snapshot, owner, TRUE).st, owner, 0,
                  [w |-> Accepts, o |-> Accepts]).res = "ok"

\* C10: a plain transfer of v to the contract, with call data (fallback) or
\* without (receive), active or not, is accepted, adds exactly v to prizePool
\* (and to the balance) and leaves the ledger, the entry counts and
\* roundNumber (everything else) unchanged.
C10_DonationEffects ==
    \A v \in 0..MaxValue :
        LET expected == Done([Snapshot EXCEPT !.prizePool = prizePool + v,
                                              !.balance = balance + v])
        IN  /\ receive(Snapshot, v) = expected
            /\ fallback(Snapshot, v) = expected
            /\ receive(Snapshot, v).st.entries = entries
            /\ receive(Snapshot, v).st.participantEntries = participantEntries
            /\ receive(Snapshot, v).st.roundNumber = roundNumber

\* C10 witness: a paused lottery with an empty ledger holds a donated pool.
C10_Witness ==
    /\ ~isActive /\ Len(entries) = 0 /\ prizePool = 2 /\ balance = 2
    /\ roundNumber = 1
    /\ \A a \in Addr : participantEntries[a] = 0

Outcomes ==
    {enterLottery(Snapshot, c, v) : c \in Addr, v \in 0..MaxValue}
    \cup {receive(Snapshot, v) : v \in 0..MaxValue}
    \cup {fallback(Snapshot, v) : v \in 0..MaxValue}
    \cup {setLotteryActive(Snapshot, c, f) : c \in Addr, f \in BOOLEAN}
    \cup {setEntryFee(Snapshot, c, f) : c \in Addr, f \in 0..MaxFee}
    \cup UNION {{drawWinner(Snapshot, c, h, plan) : plan \in AllDrawPlans} :
                   c \in Addr, h \in Hashes}
    \cup UNION {{emergencyWithdraw(Snapshot, c, plan) : plan \in AllWithdrawPlans} :
                   c \in Addr}

\* The number of events named ev in a log, and of those about address a.
CountEvents(log, ev) == Cardinality({i \in DOMAIN log : log[i].ev = ev})

CountEventsOf(log, ev, a) ==
    Cardinality({i \in DOMAIN log : log[i].ev = ev /\ log[i].who = a})

C13_RoundCountsDraws ==
    /\ roundNumber = 1 + Len(winners)
    /\ \A r \in Outcomes :
           LET n == CountEvents(r.st.log, "WinnerDrawn")
           IN  /\ r.st.roundNumber = roundNumber + n
               /\ Len(r.st.winners) = Len(winners) + n
               /\ SubSeq(r.st.winners, 1, Len(winners)) = winners
    /\ \A h \in Hashes, plan \in [w : PlainPlans, o : PlainPlans] :
           LET r == drawWinner(Snapshot, owner, h, plan)
           IN  r.res = "ok" =>
                   /\ r.st.roundNumber = roundNumber + 1
                   /\ r.st.winners
                          = Append(winners, [winner |-> r.winner,
                                             prize |-> r.paidWinner,
                                             winningNumber |-> 0])

\* C13 witness: two rounds have been drawn, with different winners and
\* different prizes, and a third is being entered.
C13_Witness ==
    /\ roundNumber = 3 /\ Len(winners) = 2 /\ Len(entries) > 0
    /\ winners[1].winner # winners[2].winner
    /\ winners[1].prize # winners[2].prize

\* The participants of the entries in the ledger.
Participants == {entries[i].participant : i \in DOMAIN entries}

\* C14: the winner of every successful draw is the participant of an entry
\* that is in the ledger when drawWinner is called, it is the address
\* recorded in the history and the payee of the prize; every index of the
\* ledger is the outcome for some block hash; a ledger whose entries are all
\* of one participant is won by that participant; an address without an
\* entry in the ledger never wins, whatever it entered in earlier rounds.
C14_WinnerIsAnEntrant ==
    /\ \A h \in Hashes, plan \in AllDrawPlans :
           LET r == drawWinner(Snapshot, owner, h, plan)
           IN  r.res = "ok" =>
                   /\ r.winner \in Participants
                   /\ r.winner = entries[(h % Len(entries)) + 1].participant
                   /\ r.st.winners[Len(winners) + 1].winner = r.winner
                   /\ r.st.sent[1] = Sent(r.winner, r.paidWinner)
                   /\ r.st.hasWon[r.winner]
                   /\ \A a \in Addr \ Participants : r.winner # a
                   /\ \A a \in Addr : Participants = {a} => r.winner = a
    /\ (isActive /\ balance >= prizePool) =>
           \A i \in DOMAIN entries : \E h \in Hashes :
               LET r == drawWinner(Snapshot, owner, h,
                                   [w |-> Accepts, o |-> Accepts])
               IN  /\ r.res = "ok"
                   /\ h % Len(entries) = i - 1
                   /\ r.winner = entries[i].participant

\* C14 witness: a second round whose only entry is alice's, while the
\* deployer entered the first round only: every draw is won by alice.
C14_Witness ==
    /\ roundNumber = 2 /\ isActive /\ balance >= prizePool
    /\ Len(entries) = 1 /\ entries[1].participant = "alice"
    /\ participantEntries[Deployer] > 0
    /\ \A h \in Hashes :
           drawWinner(Snapshot, owner, h, [w |-> Accepts, o |-> Accepts]).winner
               = "alice"

\* C15 as stated: on every successful draw the owner is sent exactly
\* floor(P*20/100), P being prizePool when drawWinner is called.
C15_OwnerGetsFloorTwenty ==
    \A h \in Hashes, plan \in AllDrawPlans :
        LET r == drawWinner(Snapshot, owner, h, plan)
        IN  r.res = "ok" => r.paidOwner = (prizePool * 20) \div 100

\* P*20/100 rounded up.
CeilTwentyPercent(pool) == (pool * 20 + 99) \div 100

\* C15 amended: on every successful draw the owner is sent what the winner's
\* floor(P*80/100) leaves of P, which is P*20/100 rounded up: floor(P*20/100)
\* when P is a multiple of 5 and one wei more otherwise; it goes to the owner
\* in the transfer that follows the winner's.
C15_OwnerGetsRemainder ==
    /\ \A p \in 0..MaxSplitPool :
           /\ OwnerFee(p, Prize(p)) = CeilTwentyPercent(p)
           /\ (p % 5 = 0) <=> (OwnerFee(p, Prize(p)) = (p * 20) \div 100)
           /\ (p % 5 # 0) <=> (OwnerFee(p, Prize(p)) = (p * 20) \div 100 + 1)
    /\ \A h \in Hashes, plan \in AllDrawPlans :
           LET r == drawWinner(Snapshot, owner, h, plan)
           IN  r.res = "ok" =>
                   /\ r.paidOwner = CeilTwentyPercent(prizePool)
                   /\ \E i \in DOMAIN r.st.sent :
                          i > 1 /\ r.st.sent[i] = Sent(owner, r.paidOwner)
                   /\ (plan.w.cb = <<>> /\ plan.o.cb = <<>>) =>
                          r.st.sent = <<Sent(r.winner, r.paidWinner),
                                        Sent(owner, r.paidOwner)>>

\* C15 witness: a draw on a pool of 1 wei succeeds; the winner is sent 0 and
\* the owner 1, where floor(1*20/100) is 0.
C15_Witness ==
    /\ prizePool = 1 /\ balance = 1 /\ Len(entries) > 0
    /\ LET r == drawWinner(Snapshot, owner, 0, [w |-> Accepts, o |-> Accepts])
       IN  r.res = "ok" /\ r.paidWinner = 0 /\ r.paidOwner = 1

\* C16: enterLottery with msg.value = 0 is rejected and records no entry (it
\* leaves the contract as it was), in every reachable state, whatever
\* entryFee the owner has set.
C16_ZeroPaymentRejected ==
    \A c \in Addr :
        LET r == enterLottery(Snapshot, c, 0)
        IN  /\ r.res # "ok"
            /\ r.st = Snapshot
            /\ Len(r.st.entries) = Len(entries)

\* A payee plan that does not change the fee.
KeepsFee(pp) == pp.cb = <<>> \/ pp.cb[1].op # "setEntryFee"

\* C17: setEntryFee(f) by the owner succeeds and changes entryFee to f and
\* nothing else (prizePool, the ledger and roundNumber are as before); the
\* next enterLottery is accepted exactly when the lottery is active and the
\* payment is at least f; and the fee stays in force, in this round and in
\* later ones, until it is set again: in every reachable state an entry is
\* accepted exactly when the lottery is active and pays at least entryFee,
\* and no call other than setEntryFee (made directly or by a payee) changes
\* entryFee, a successful draw included.
C17_FeeTakesEffect ==
    /\ \A f \in 0..MaxFee :
           LET r == setEntryFee(Snapshot, owner, f)
           IN  /\ r = Done([Snapshot EXCEPT !.entryFee = f])
               /\ r.st.prizePool = prizePool
               /\ r.st.entries = entries
               /\ r.st.roundNumber = roundNumber
               /\ \A c \in Addr, v \in 0..MaxValue :
                      enterLottery(r.st, c, v).res = "ok"
                          <=> (isActive /\ v >= f)
    /\ \A c \in Addr, v \in 0..MaxValue :
           /\ enterLottery(Snapshot, c, v).res = "ok"
                  <=> (isActive /\ v >= entryFee)
           /\ enterLottery(Snapshot, c, v).st.entryFee = entryFee
           /\ receive(Snapshot, v).st.entryFee = entryFee
           /\ fallback(Snapshot, v).st.entryFee = entryFee
    /\ \A c \in Addr, active \in BOOLEAN :
           setLotteryActive(Snapshot, c, active).st.entryFee = entryFee
    /\ \A c \in Addr, h \in Hashes, plan \in AllDrawPlans :
           (KeepsFee(plan.w) /\ KeepsFee(plan.o)) =>
               LET r == drawWinner(Snapshot, c, h, plan)
               IN  /\ r.st.entryFee = entryFee
                   /\ r.res = "ok" =>
                          \A d \in Addr, v \in 0..MaxValue :
                              enterLottery(r.st, d, v).res = "ok"
                                  <=> (r.st.isActive /\ v >= entryFee)
    /\ \A c \in Addr, plan \in AllWithdrawPlans :
           KeepsFee(plan.o) =>
               emergencyWithdraw(Snapshot, c, plan).st.entryFee = entryFee

\* C17 witness: the fee was lowered from 1 to 0 in the middle of a round: the
\* ledger holds an entry paid at the old fee and one paid nothing, and a
\* further unpaid entry is accepted.
C17_Witness ==
    /\ roundNumber = 1 /\ entryFee = 0 /\ isActive
    /\ Len(entries) = 2 /\ prizePool = 1 /\ balance = 1
    /\ enterLottery(Snapshot, "alice", 0).res = "ok"

\* C18: a successful draw emits WinnerDrawn with the winner, the prize paid
\* and the number of the round drawn (roundNumber when drawWinner is called)
\* and, after it, as the last event of the draw, LotteryReset with that
\* number plus 1; a rejected draw emits no event.
C18_DrawEvents ==
    \A c \in Addr, h \in Hashes, plan \in AllDrawPlans :
        LET r == drawWinner(Snapshot, c, h, plan)
            n == Len(r.st.log)
        IN  /\ r.res = "ok" =>
                   /\ n >= 2
                   /\ r.st.log[n - 1]
                          = WinnerDrawn(r.winner, r.paidWinner, roundNumber)
                   /\ r.st.log[n] = LotteryReset(roundNumber + 1)
            /\ r.res # "ok" => r.st.log = <<>>

\* The owner's setLotteryActive(b) emits exactly one event, the status event
\* carrying b, also when b is the value the flag already has.
SetActiveEmitsStatus ==
    \A active \in BOOLEAN :
        LET r == setLotteryActive(Snapshot, owner, active)
        IN  /\ r.res = "ok"
            /\ Len(r.st.log) = 1
            /\ r.st.log[1].ev = "LotteryStatusChanged"
            /\ r.st.log[1].flag = active

\* C19 as stated: every successful setLotteryActive and every successful
\* setEntryFee emits a status-change event reporting the new value.
C19_SettersEmitStatusEvent ==
    /\ SetActiveEmitsStatus
    /\ \A newFee \in 0..MaxFee :
           LET r == setEntryFee(Snapshot, owner, newFee)
           IN  r.res = "ok" =>
                   \E i \in DOMAIN r.st.log : r.st.log[i].amount = newFee

\* C19 amended: every successful setLotteryActive(b) emits the status event
\* reporting b; a successful setEntryFee emits no event at all (the new fee
\* is visible only in entryFee); a rejected call of either emits nothing.
C19_OnlySetActiveEmits ==
    /\ SetActiveEmitsStatus
    /\ \A newFee \in 0..MaxFee :
           LET r == setEntryFee(Snapshot, owner, newFee)
           IN  /\ r.res = "ok"
               /\ r.st.log = <<>>
               /\ r.st.entryFee = newFee
    /\ \A c \in Addr \ {owner} :
           /\ \A active \in BOOLEAN :
                  setLotteryActive(Snapshot, c, active).st.log = <<>>
           /\ \A newFee \in 0..MaxFee :
                  setEntryFee(Snapshot, c, newFee).st.log = <<>>

\* C19 witness: the lottery has been paused and the fee changed from its
\* initial value: the owner's setters go through, one with an event and one
\* without.
C19_Witness ==
    /\ ~isActive /\ entryFee # InitialEntryFee
    /\ setLotteryActive(Snapshot, owner, TRUE).st.log
           = <<LotteryStatusChanged(TRUE)>>
    /\ setEntryFee(Snapshot, owner, InitialEntryFee).res = "ok"
    /\ setEntryFee(Snapshot, owner, InitialEntryFee).st.log = <<>>

\* C20: a successful draw runs with no other lottery operation in between:
\* whatever its payees do while they are paid, its outcome is that of the
\* draw made alone (payees that just accept); between the payouts and the
\* reset no entry is accepted and no payment comes in, so the reset erases
\* only entries, and the draw pays out all of the pool, that drawWinner found
\* when it was called.
C20_DrawRunsAlone ==
    \A h \in Hashes, plan \in AllDrawPlans :
        LET r == drawWinner(Snapshot, owner, h, plan)
        IN  r.res = "ok" =>
              /\ r = drawWinner(Snapshot, owner, h, [w |-> Accepts, o |-> Accepts])
              /\ CountEvents(r.st.log, "LotteryEntered") = 0
              /\ CountEvents(r.st.log, "WinnerDrawn") = 1
              /\ r.st.participantEntries = participantEntries
              /\ r.st.balance = balance - prizePool

\* Every call another user d can make on EncryptedStorage, and on
\* UserDecryption.
StorageCallsBy(d) ==
    {EncryptedStorage_storeSingleValue32(StorageSnapshot, d, v) : v \in Plain}
    \cup {EncryptedStorage_storeSingleValue64(StorageSnapshot, d, v) : v \in Plain}
    \cup {EncryptedStorage_storeMultipleValues(StorageSnapshot, d, v, w) :
              v \in Plain, w \in Plain}
    \cup {EncryptedStorage_addToValue32(StorageSnapshot, d, v) : v \in Plain}

DecryptionCallsBy(d) ==
    {UserDecryption_storeSingleValue(DecryptionSnapshot, d, v) : v \in Plain}
    \cup {UserDecryption_storeSingleValue64(DecryptionSnapshot, d, v) : v \in Plain}
    \cup {UserDecryption_storeMultipleValues(DecryptionSnapshot, d, v, w, x) :
              v \in Plain, w \in Plain, x \in Plain}
    \cup {UserDecryption_addToValue(DecryptionSnapshot, d, v) : v \in Plain}
    \cup {UserDecryption_shareWithUser(DecryptionSnapshot, d, u) :
              u \in Addr \cup {ZeroAddress}}

\* C21: in EncryptedStorage and in UserDecryption an add-to-value call by a
\* user is rejected ("No value stored"), changing nothing, as long as that
\* user has not stored the value it adds to (the user's 32-bit value, as
\* hasValue32/hasValue report it: none is stored at deployment, and storing
\* a 64-bit value or, in UserDecryption, a UserData record does not store
\* it), and is accepted once that user has stored it, from then on; calls by
\* another user, stores included, never change whether it is accepted.
C21_AddNeedsOwnValue ==
    \A c \in Addr, w \in Plain :
        LET a32 == EncryptedStorage_addToValue32(StorageSnapshot, c, w)
            add == UserDecryption_addToValue(DecryptionSnapshot, c, w)
        IN  /\ a32.res = "ok" <=> EncryptedStorage_hasValue32(StorageSnapshot, c)
            /\ a32.res # "ok" => a32 = Rejected(StorageSnapshot, "No value stored")
            /\ add.res = "ok" <=> UserDecryption_hasValue(DecryptionSnapshot, c)
            /\ add.res # "ok" => add = Rejected(DecryptionSnapshot, "No value stored")
            \* accepted once the caller has stored the value
            /\ \A v \in Plain :
                  /\ EncryptedStorage_addToValue32(
                         EncryptedStorage_storeSingleValue32(StorageSnapshot, c, v).st,
                         c, w).res = "ok"
                  /\ EncryptedStorage_addToValue32(
                         EncryptedStorage_storeMultipleValues(StorageSnapshot, c, v, v).st,
                         c, w).res = "ok"
                  /\ UserDecryption_addToValue(
                         UserDecryption_storeSingleValue(DecryptionSnapshot, c, v).st,
                         c, w).res = "ok"
            \* the caller's other stores do not store it
                  /\ EncryptedStorage_addToValue32(
                         EncryptedStorage_storeSingleValue64(StorageSnapshot, c, v).st,
                         c, w).res = a32.res
                  /\ UserDecryption_addToValue(
                         UserDecryption_storeSingleValue64(DecryptionSnapshot, c, v).st,
                         c, w).res = add.res
                  /\ UserDecryption_addToValue(
                         UserDecryption_storeMultipleValues(DecryptionSnapshot, c, v, v, v).st,
                         c, w).res = add.res
            \* once accepted, accepted after every further call of anyone
            /\ \A d \in Addr :
                  /\ \A r \in StorageCallsBy(d) :
                         a32.res = "ok"
                             => EncryptedStorage_addToValue32(r.st, c, w).res = "ok"
                  /\ \A r \in DecryptionCallsBy(d) :
                         add.res = "ok"
                             => UserDecryption_addToValue(r.st, c, w).res = "ok"
            \* what another user does never makes it succeed
            /\ \A d \in Addr \ {c} :
                  /\ \A r \in StorageCallsBy(d) :
                         EncryptedStorage_addToValue32(r.st, c, w).res = a32.res
                  /\ \A r \in DecryptionCallsBy(d) :
                         UserDecryption_addToValue(r.st, c, w).res = add.res

\* C21 witness: alice has stored her value in EncryptedStorage and the
\* deployer his in UserDecryption, and each has stored nothing in the other
\* contract but a 64-bit value: each is accepted where he or she stored and
\* rejected in the other contract.
C21_Witness ==
    /\ userEncryptedValue32["alice"] = Enc(1)
    /\ userEncryptedValue32[Deployer] = NoValue
    /\ userEncryptedValue64[Deployer] # NoValue
    /\ userEncryptedData32[Deployer] # NoValue
    /\ userEncryptedData32["alice"] = NoValue
    /\ EncryptedStorage_addToValue32(StorageSnapshot, "alice", 0).res = "ok"
    /\ EncryptedStorage_addToValue32(StorageSnapshot, Deployer, 0).res
           = "No value stored"
    /\ UserDecryption_addToValue(DecryptionSnapshot, "alice", 0).res
           = "No value stored"

\* The outcomes of the owner's calls of AccessControlDemo in the current state.
AccessFlagKept(r, u) == isAuthorized(r.st, u) = isAuthorized(AccessSnapshot, u)

AccessFlagRules ==
    \A u \in DemoAddr :
        LET s == AccessSnapshot
            au == authorizeUser(s, AccessOwner, u)
            rv == revokeUser(s, AccessOwner, u)
        IN  /\ rv.res = "ok" <=> isAuthorized(s, u)
            /\ au.res = "ok" => isAuthorized(au.st, u)
            /\ rv.res = "ok" => ~isAuthorized(rv.st, u)
            /\ au.res # "ok" => AccessFlagKept(au, u)
            /\ rv.res # "ok" => AccessFlagKept(rv, u)
            /\ \A w \in DemoAddr \ {u} :
                   AccessFlagKept(authorizeUser(s, AccessOwner, w), u)
                   /\ AccessFlagKept(revokeUser(s, AccessOwner, w), u)
            /\ \A v \in Plain : AccessFlagKept(setSharedValue(s, AccessOwner, v), u)
            /\ AccessFlagKept(getSharedValue(s, u), u)
            /\ getSharedValue(s, u).res = "ok"
                   <=> (u = AccessOwner \/ isAuthorized(s, u))

\* C22 as stated: the owner's authorizeUser(u) succeeds exactly when u is not
\* authorized, revokeUser(u) exactly when u is authorized, isAuthorized(u)
\* follows the last successful of the two calls, and getSharedValue succeeds
\* exactly for the owner and the authorized callers.
C22_AuthorizeByFlag ==
    /\ AccessFlagRules
    /\ \A u \in DemoAddr :
           authorizeUser(AccessSnapshot, AccessOwner, u).res = "ok"
               <=> ~isAuthorized(AccessSnapshot, u)

\* C22 amended: the owner's authorizeUser(u) succeeds exactly when u is not
\* authorized and the owner has set a shared value before (until then the
\* contract has no right on the unset value to grant and the call fails);
\* revokeUser(u) succeeds exactly when u is authorized, isAuthorized(u)
\* follows the last successful of the two calls, and getSharedValue succeeds
\* exactly for the owner and the authorized callers.
C22_AuthorizeOnceValueSet ==
    /\ AccessFlagRules
    /\ \A u \in DemoAddr :
           authorizeUser(AccessSnapshot, AccessOwner, u).res = "ok"
               <=> (~isAuthorized(AccessSnapshot, u)
                    /\ isInitialized(sharedEncryptedValue))
    /\ isInitialized(sharedEncryptedValue)
           <=> <<sharedEncryptedValue, This>> \in allowed

\* A user was authorized and revoked again while another one is authorized.
C22_Witness ==
    /\ isInitialized(sharedEncryptedValue)
    /\ \E u, w \in DemoAddr \ {AccessOwner} :
           /\ ~authorizedUsers[u]
           /\ <<sharedEncryptedValue, u>> \in allowed
           /\ authorizedUsers[w]

\* C26: a caller for whom getSharedValue succeeds holds a right on the shared
\* value stored at that moment (once a shared value has been set).
C26_ReaderHoldsRight ==
    \A c \in DemoAddr :
        LET r == getSharedValue(AccessSnapshot, c)
        IN  (r.res = "ok" /\ isInitialized(r.value)) => <<r.value, c>> \in allowed

\* ========================================================================
\* tasks/PrivateLottery.ts: the deploy-lottery task.
\* PrivateLottery as its constructor and field initialisers leave it.
constructor(deployer) ==
    [owner |-> deployer, entryFee |-> InitialEntryFee, prizePool |-> 0,
     isActive |-> TRUE, roundNumber |-> 1, entries |-> <<>>,
     winners |-> <<>>, participantEntries |-> [a \in Addr |-> 0],
     hasWon |-> [a \in Addr |-> FALSE], balance |-> 0,
     log |-> <<>>, sent |-> <<>>]

\* The values of --fee tried, in ether; "0.001" is the default.
TaskFees == {"0", "0.001", "0.002"}

\* ethers.parseEther, in the unit of this model (entryFee = 0.001 ether = 1).
parseEther(fee) ==
    CASE fee = "0"     -> 0
      [] fee = "0.001" -> 1
      [] fee = "0.002" -> 2

\* deploy-lottery --fee fee, run by deployer: factory.deploy() takes no
\* argument; the fee is only printed.
deployLottery(deployer, fee) ==
    [lottery |-> constructor(deployer), reportedFee |-> parseEther(fee)]

\* C23: the lottery deployed by deploy-lottery --fee F enforces the fee the
\* task reports: it accepts an entry exactly when the payment is at least
\* that fee (and the contract explored here is that deployed contract).
C23_TaskFeeIsEnforced ==
    \A fee \in TaskFees :
        LET d == deployLottery(owner, fee)
        IN  /\ d.lottery.entryFee = d.reportedFee
            /\ \A c \in Addr, v \in 0..MaxValue :
                   enterLottery(d.lottery, c, v).res = "ok"
                       <=> v >= d.reportedFee

\* ========================================================================
\* The scenario of the specification, in units of 0.0001 ether so that the
\* split of a pool of 0.003 is exact as it is in wei.
ScenarioFee == 10

MaxScenarioPool == 40

MaxScenarioRound == 2

\* A freshly deployed lottery; Alice and Bob are not the owner.
ScenarioStart ==
    [constructor(Deployer) EXCEPT
        !.entryFee = ScenarioFee,
        !.participantEntries = [a \in DemoAddr |-> 0],
        !.hasWon = [a \in DemoAddr |-> FALSE]]

ScenarioInit ==
    /\ owner = ScenarioStart.owner
    /\ entryFee = ScenarioStart.entryFee
    /\ prizePool = ScenarioStart.prizePool
    /\ isActive = ScenarioStart.isActive
    /\ roundNumber = ScenarioStart.roundNumber
    /\ entries = ScenarioStart.entries
    /\ winners = ScenarioStart.winners
    /\ participantEntries = ScenarioStart.participantEntries
    /\ hasWon = ScenarioStart.hasWon
    /\ balance = ScenarioStart.balance
    /\ TeachingInit
    /\ AccessInit
    /\ AnonInit

ScenarioCommit(r) ==
    /\ Len(r.st.entries) <= MaxEntries
    /\ r.st.prizePool <= MaxScenarioPool
    /\ r.st.roundNumber <= MaxScenarioRound
    /\ owner' = r.st.owner
    /\ entryFee' = r.st.entryFee
    /\ prizePool' = r.st.prizePool
    /\ isActive' = r.st.isActive
    /\ roundNumber' = r.st.roundNumber
    /\ entries' = r.st.entries
    /\ winners' = r.st.winners
    /\ participantEntries' = r.st.participantEntries
    /\ hasWon' = r.st.hasWon
    /\ balance' = r.st.balance
    /\ UNCHANGED teachingVars
    /\ UNCHANGED accessVars
    /\ UNCHANGED anon

ScenarioEnter(c, v) == ScenarioCommit(enterLottery(Snapshot, c, v))

ScenarioDraw(c, hash, plan) ==
    ScenarioCommit(drawWinner(Snapshot, c, hash, plan))

ScenarioNext ==
    \/ \E c \in {"alice", "bob"}, v \in {ScenarioFee, 2 * ScenarioFee} :
           ScenarioEnter(c, v)
    \/ \E c \in DemoAddr, hash \in Hashes :
           \E plan \in TxDrawPlans(c) : ScenarioDraw(c, hash, plan)

SpecScenario == ScenarioInit /\ [][ScenarioNext]_vars

\* Alice has entered paying the fee, then Bob paying twice the fee.
ScenarioEntered(s) ==
    /\ s.roundNumber = 1
    /\ s.winners = <<>>
    /\ s.entries = <<[participant |-> "alice"], [participant |-> "bob"]>>
    /\ s.prizePool = 3 * ScenarioFee
    /\ s.balance = 3 * ScenarioFee

\* C24: from the fresh lottery Alice's entry with the fee and Bob's with
\* twice the fee give 2 entries and a pool of 0.003; a successful draw by the
\* owner then records Alice or Bob, pays the winner 0.0024 and the owner
\* 0.0006, and leaves the pool at 0 and the round at 2.
C24_Scenario ==
    /\ Snapshot = ScenarioStart =>
           LET e1 == enterLottery(Snapshot, "alice", ScenarioFee)
               e2 == enterLottery(e1.st, "bob", 2 * ScenarioFee)
           IN  /\ e1.res = "ok" /\ e2.res = "ok"
               /\ Len(e1.st.entries) = 1 /\ e1.st.prizePool = ScenarioFee
               /\ Len(e2.st.entries) = 2 /\ e2.st.prizePool = 3 * ScenarioFee
               /\ ScenarioEntered(e2.st)
    /\ ScenarioEntered(Snapshot) =>
           /\ \E hash \in Hashes :
                  drawWinner(Snapshot, owner, hash,
                             [w |-> Accepts, o |-> Accepts]).res = "ok"
           /\ \A hash \in Hashes, plan \in AllDrawPlans :
                  LET d == drawWinner(Snapshot, owner, hash, plan)
                  IN  d.res = "ok" =>
                          /\ d.winner \in {"alice", "bob"}
                          /\ d.st.winners =
                                 <<[winner |-> d.winner, prize |-> 24,
                                    winningNumber |-> 0]>>
                          /\ d.st.hasWon[d.winner]
                          /\ d.paidWinner = 24 /\ d.paidOwner = 6
                          /\ d.st.sent[1] = Sent(d.winner, 24)
                          /\ \E i \in DOMAIN d.st.sent :
                                 i > 1 /\ d.st.sent[i] = Sent(owner, 6)
                          /\ d.st.prizePool = 0
                          /\ d.st.roundNumber = 2

\* The draw of the scenario has happened.
C24_Witness ==
    /\ roundNumber = 2
    /\ prizePool = 0
    /\ entries = <<>>
    /\ participantEntries["alice"] = 1 /\ participantEntries["bob"] = 1
    /\ Len(winners) = 1 /\ winners[1].prize = 24
    /\ winners[1].winner = "bob"

\* ========================================================================
\* PrivateLottery and AnonymousLottery side by side: both deployed by the
\* same account, every call made on both.  Amounts are in units of
\* 0.00001 ether, in which PrivateLottery's initial fee of 0.001 ether is 100.
PairPrivateFee == 100

PairStart == [constructor(Deployer) EXCEPT !.entryFee = PairPrivateFee]

PairInit ==
    /\ owner = PairStart.owner
    /\ entryFee = PairStart.entryFee
    /\ prizePool = PairStart.prizePool
    /\ isActive = PairStart.isActive
    /\ roundNumber = PairStart.roundNumber
    /\ entries = PairStart.entries
    /\ winners = PairStart.winners
    /\ participantEntries = PairStart.participantEntries
    /\ hasWon = PairStart.hasWon
    /\ balance = PairStart.balance
    /\ TeachingInit
    /\ AccessInit
    /\ AnonInit

MaxPairRound == 2

\* The states explored side by side.
PairWithin(s) ==
    /\ Len(s.entries) <= MaxEntries
    /\ \A a \in Addr : s.participantEntries[a] <= MaxCount
    /\ s.prizePool <= MaxPool
    /\ s.balance <= MaxPool
    /\ s.roundNumber <= MaxPairRound

\* Both transactions commit, each contract on its own.
PairCommit(rp, ra) ==
    /\ PairWithin(rp.st) /\ PairWithin(ra.st)
    /\ owner' = rp.st.owner
    /\ entryFee' = rp.st.entryFee
    /\ prizePool' = rp.st.prizePool
    /\ isActive' = rp.st.isActive
    /\ roundNumber' = rp.st.roundNumber
    /\ entries' = rp.st.entries
    /\ winners' = rp.st.winners
    /\ participantEntries' = rp.st.participantEntries
    /\ hasWon' = rp.st.hasWon
    /\ balance' = rp.st.balance
    /\ anon' = [ra.st EXCEPT !.log = <<>>]
    /\ UNCHANGED teachingVars
    /\ UNCHANGED accessVars

\* The payees explored side by side: they accept, refuse, or call back once
\* with a donation or an entry.
PairCallbackPlans ==
    {[cb |-> <<k>>, accept |-> TRUE] :
        k \in {Call("receive", 1, FALSE, 0, <<>>),
               Call("enterLottery", 1, FALSE, 0, <<>>)}}

PairDrawPlans ==
    [w : PlainPlans, o : PlainPlans]
    \cup [w : PairCallbackPlans, o : {Accepts}]
    \cup [w : {Accepts}, o : PairCallbackPlans]

PairWithdrawPlans == [o : PlainPlans \cup PairCallbackPlans]

\* The accounts that enter side by side (the owner's account enters only
\* from a callback).
PairEntrants == Addr \ {Deployer}

PairEnter(c, v) ==
    PairCommit(enterLottery(Snapshot, c, v), Anon_enterLottery(anon, c, v))

PairReceive(v) == PairCommit(receive(Snapshot, v), Anon_receive(anon, v))

PairFallback(v) == PairCommit(fallback(Snapshot, v), Anon_fallback(anon, v))

PairSetActive(c, active) ==
    PairCommit(setLotteryActive(Snapshot, c, active),
               Anon_setLotteryActive(anon, c, active))

PairSetFee(c, newFee) ==
    PairCommit(setEntryFee(Snapshot, c, newFee),
               Anon_setEntryFee(anon, c, newFee))

PairDraw(c, hash, plan) ==
    PairCommit(drawWinner(Snapshot, c, hash, plan),
               Anon_drawWinner(anon, c, hash, plan))

PairWithdraw(c, plan) ==
    PairCommit(emergencyWithdraw(Snapshot, c, plan),
               Anon_emergencyWithdraw(anon, c, plan))

PairNext ==
    \/ \E c \in PairEntrants, v \in 0..MaxValue : PairEnter(c, v)
    \/ \E v \in 0..MaxValue : PairReceive(v)
    \/ \E v \in 0..MaxValue : PairFallback(v)
    \/ \E c \in Addr, active \in BOOLEAN : PairSetActive(c, active)
    \/ \E c \in Addr, newFee \in 0..MaxFee : PairSetFee(c, newFee)
    \/ \E c \in Addr, hash \in Hashes, plan \in PairDrawPlans :
           PairDraw(c, hash, plan)
    \/ \E c \in Addr, plan \in PairWithdrawPlans : PairWithdraw(c, plan)

SpecPair == PairInit /\ [][PairNext]_vars

\* What the claim compares, and whether both calls were accepted or both
\* rejected.
PairStats(s) ==
    [entryCount |-> Len(s.entries), prizePool |-> s.prizePool,
     roundNumber |-> s.roundNumber, participantEntries |-> s.participantEntries]

PairAccepted(rp, ra) == (rp.res = "ok") <=> (ra.res = "ok")

\* The two contracts are in the same state, as far as their control flow
\* reads it.
PairSame(p, a) ==
    /\ PairStats(p) = PairStats(a)
    /\ [i \in DOMAIN p.entries |-> p.entries[i].participant]
           = [i \in DOMAIN a.entries |-> a.entries[i].participant]
    /\ p.owner = a.owner /\ p.entryFee = a.entryFee
    /\ p.isActive = a.isActive /\ p.balance = a.balance

PairAgree(rp, ra) ==
    /\ PairAccepted(rp, ra)
    /\ PairSame(rp.st, ra.st)
    /\ rp.winner = ra.winner
    /\ rp.paidWinner = ra.paidWinner /\ rp.paidOwner = ra.paidOwner

\* The payments tried on a state by the claims on entries.
PairPayments == 0..(11 * (MaxFee + 1))

C27_BalanceCoversPool ==
    /\ balance >= prizePool
    /\ (isActive /\ Len(entries) > 0) =>
           \A h \in Hashes :
               drawWinner(Snapshot, owner, h, [w |-> Accepts, o |-> Accepts]).res
                   = "ok"

\* A payee that does not call emergencyWithdraw.
NoWithdraw(pp) == pp.cb = <<>> \/ pp.cb[1].op # "emergencyWithdraw"

\* C28: while emergencyWithdraw is not called the balance stays equal to
\* PrizePool: from a state where they are equal, every operation other than
\* emergencyWithdraw ends with them equal again.
C28_BalanceIsPool ==
    balance = prizePool =>
        /\ \A c \in Addr, v \in 0..MaxValue :
               /\ enterLottery(Snapshot, c, v).st.balance
                      = enterLottery(Snapshot, c, v).st.prizePool
               /\ receive(Snapshot, v).st.balance = receive(Snapshot, v).st.prizePool
               /\ fallback(Snapshot, v).st.balance = fallback(Snapshot, v).st.prizePool
        /\ \A c \in Addr, h \in Hashes, plan \in AllDrawPlans :
               (NoWithdraw(plan.w) /\ NoWithdraw(plan.o)) =>
                   LET r == drawWinner(Snapshot, c, h, plan)
                   IN  r.st.balance = r.st.prizePool

\* The addresses with a record in the history of winners.
Recorded(w) == {w[i].winner : i \in DOMAIN w}

\* C29: hasWon is true exactly of the addresses with a winner record, and no
\* call, whatever its payees do, makes a true flag false.
C29_HasWonIsHistory ==
    /\ \A a \in Addr : hasWon[a] <=> a \in Recorded(winners)
    /\ \A r \in Outcomes : \A a \in Addr :
           /\ hasWon[a] => r.st.hasWon[a]
           /\ r.st.hasWon[a] <=> a \in Recorded(r.st.winners)
    /\ \A h \in Hashes, plan \in AllDrawPlans :
           LET r == drawWinner(Snapshot, owner, h, plan)
           IN  r.res = "ok" => r.st.hasWon[r.winner]

\* A winner of an earlier round and an entrant of that round who has not won.
C29_Witness ==
    /\ roundNumber = 3
    /\ hasWon["alice"] /\ ~hasWon[Deployer]
    /\ participantEntries[Deployer] > 0
    /\ Recorded(winners) = {"alice"}
    /\ Len(entries) > 0

====
